---- MODULE Spec2Model ----
(***************************************************************************)
(* A model of the todo list manager of src/todo.py: the TodoList store,    *)
(* its JSON backing file and the operations add_task, mark_done,           *)
(* list_tasks, get_pending_tasks, get_completed_tasks, save_tasks and      *)
(* load_tasks.                                                              *)
(*                                                                          *)
(* A Python str is a sequence of one-character strings.  A Python dict is  *)
(* the sequence of its items in insertion order.  A Python value is a      *)
(* record tagged with its type.  The backing file is either missing, or    *)
(* holds bytes that are no UTF-8 text, or text that is no JSON document,   *)
(* or a JSON document: an array of objects, each the sequence of its       *)
(* members, each member a name and a JSON literal.                          *)
(***************************************************************************)
EXTENDS Integers, Sequences, FiniteSets, TLC

\* Bounds of the model.
MaxTasks == 2
MaxClock == 1
MaxFaults == 1

VARIABLES
    pc,      \* "start": no store yet; "running": a TodoList exists; "crashed": an
             \* exception ended the run; "exited": the program ended after Ctrl-C
    tasks,   \* self.tasks
    file,    \* the backing file self.filename
    now,     \* the wall clock read by datetime.now()
    last,    \* the last operation called
    out,     \* what the last operation printed
    ret,     \* what the last operation returned (<<>> for None)
    raised,  \* the exception the last operation let escape, or "none"
    faults   \* the I/O failures the file system has produced so far

vars == <<pc, tasks, file, now, last, out, ret, raised, faults>>

----------------------------------------------------------------------------
\* Python values

PyInt(n) == [ty |-> "int", i |-> n, s |-> <<>>, b |-> FALSE]
PyStr(s) == [ty |-> "str", i |-> 0, s |-> s, b |-> FALSE]
PyBool(b) == [ty |-> "bool", i |-> 0, s |-> <<>>, b |-> b]

\* dict: key in d, d[key], d[key] = v (a new key goes last)
Has(d, key) == \E i \in 1..Len(d) : d[i].k = key
Get(d, key) == d[CHOOSE i \in 1..Len(d) : d[i].k = key].v
SetItem(d, key, val) ==
    IF Has(d, key)
    THEN [i \in 1..Len(d) |-> IF d[i].k = key THEN [k |-> key, v |-> val] ELSE d[i]]
    ELSE Append(d, [k |-> key, v |-> val])

\* str.strip(): leading and trailing whitespace removed
Whitespace == {" "}

RECURSIVE lstrip(_)
lstrip(s) == IF s # <<>> /\ Head(s) \in Whitespace THEN lstrip(Tail(s)) ELSE s

RECURSIVE rstrip(_)
rstrip(s) ==
    IF s # <<>> /\ s[Len(s)] \in Whitespace THEN rstrip(SubSeq(s, 1, Len(s) - 1)) ELSE s

strip(s) == rstrip(lstrip(s))

\* datetime.now().isoformat(): the clock reading as text
Digits == <<"0", "1", "2", "3", "4", "5", "6", "7", "8", "9">>
isoformat(t) == <<"T", Digits[t + 1]>>

\* the inputs of the operations
Descriptions ==
    { <<>>, <<" ", " ">>, <<" ", "a", " ">>, <<"a", " ", "b">> }
TaskIds == 0..MaxTasks

----------------------------------------------------------------------------
\* JSON: json.dump(self.tasks, file) and json.load(file)

JNumber(n) == [t |-> "number", n |-> n, s |-> <<>>]
JString(s) == [t |-> "string", n |-> 0, s |-> s]
JTrue == [t |-> "true", n |-> 0, s |-> <<>>]
JFalse == [t |-> "false", n |-> 0, s |-> <<>>]

\* True and False written as the numbers 1 and 0
json_encode_BoolAsNumber(v) ==
    CASE v.ty = "int" -> JNumber(v.i)
      [] v.ty = "str" -> JString(v.s)
      [] v.ty = "bool" -> IF v.b THEN JNumber(1) ELSE JNumber(0)

json_encode(v) ==
    CASE v.ty = "int" -> JNumber(v.i)
      [] v.ty = "str" -> JString(v.s)
      [] v.ty = "bool" -> IF v.b THEN JTrue ELSE JFalse

json_decode(l) ==
    CASE l.t = "number" -> PyInt(l.n)
      [] l.t = "string" -> PyStr(l.s)
      [] l.t = "true" -> PyBool(TRUE)
      [] l.t = "false" -> PyBool(FALSE)

json_dump(ts) ==
    [i \in 1..Len(ts) |->
        [j \in 1..Len(ts[i]) |-> [name |-> ts[i][j].k, lit |-> json_encode(ts[i][j].v)]]]

json_load(doc) ==
    [i \in 1..Len(doc) |->
        [j \in 1..Len(doc[i]) |-> [k |-> doc[i][j].name, v |-> json_decode(doc[i][j].lit)]]]

\* the states of the backing file
Missing == [kind |-> "missing", doc |-> <<>>]
Garbage == [kind |-> "garbage", doc |-> <<>>]
Binary == [kind |-> "binary", doc |-> <<>>]
JsonFile(doc) == [kind |-> "json", doc |-> doc]

\* what the file system does to open(filename, 'r') and to open(filename, 'w')
\* with the writes after it; it fails at most MaxFaults times in a run
ReadOutcomes(n) == IF n < MaxFaults THEN {"ok", "open_fails"} ELSE {"ok"}
WriteOutcomes(n) == IF n < MaxFaults THEN {"ok", "open_fails", "write_fails"} ELSE {"ok"}
Fault(io) == IF io = "ok" THEN 0 ELSE 1

----------------------------------------------------------------------------
\* what an operation prints

Msg(m) == [msg |-> m, text |-> <<>>, a |-> 0, b |-> 0]
MsgText(m, s) == [msg |-> m, text |-> s, a |-> 0, b |-> 0]
MsgId(m, k) == [msg |-> m, text |-> <<>>, a |-> k, b |-> 0]

\* an exception that escapes an operation ends the run: nothing after the
\* raising statement is printed, and the session is over
After(exc) == IF exc = "none" THEN "running" ELSE "crashed"
Unless(exc, printed) == IF exc = "none" THEN printed ELSE <<>>

MsgProgress(c, t) == [msg |-> "Progress", text |-> <<>>, a |-> c, b |-> t]

----------------------------------------------------------------------------
\* TodoList.load_tasks: the tasks returned, what is printed, what escapes
load_tasks(f, io) ==
    IF f.kind = "missing"
    THEN [tasks |-> <<>>, out |-> <<>>, raised |-> "none"]
    ELSE IF io = "open_fails"
    THEN [tasks |-> <<>>, out |-> <<Msg("Error loading")>>, raised |-> "none"]
    ELSE CASE f.kind = "json" ->
                [tasks |-> json_load(f.doc), out |-> <<>>, raised |-> "none"]
           [] f.kind = "garbage" ->
                [tasks |-> <<>>, out |-> <<Msg("Error loading")>>, raised |-> "none"]
           [] f.kind = "binary" ->
                [tasks |-> <<>>, out |-> <<>>, raised |-> "UnicodeDecodeError"]

\* open(self.filename, 'a'): the dump is appended to what the file holds
save_tasks_Appends(ts, f, io) ==
    CASE io = "ok" ->
            [file |-> IF f.kind = "missing" THEN JsonFile(json_dump(ts))
                      ELSE IF f.kind = "binary" THEN Binary ELSE Garbage,
             out |-> <<>>, raised |-> "none"]
      [] io = "open_fails" ->
            [file |-> f, out |-> <<Msg("Error saving")>>, raised |-> "none"]
      [] io = "write_fails" ->
            [file |-> IF f.kind = "missing" THEN Garbage ELSE f,
             out |-> <<Msg("Error saving")>>, raised |-> "none"]

\* save_tasks without its except IOError: the failure escapes
save_tasks_NoCatch(ts, f, io) ==
    CASE io = "ok" -> [file |-> JsonFile(json_dump(ts)), out |-> <<>>, raised |-> "none"]
      [] io = "open_fails" -> [file |-> f, out |-> <<>>, raised |-> "IOError"]
      [] io = "write_fails" -> [file |-> Garbage, out |-> <<>>, raised |-> "IOError"]

\* TodoList.save_tasks: the file afterwards, what is printed, what escapes.
\* open(filename, 'w') truncates the file, so a failure of the writes after it
\* leaves a truncated text that is no JSON document.
save_tasks(ts, f, io) ==
    CASE io = "ok" -> [file |-> JsonFile(json_dump(ts)), out |-> <<>>, raised |-> "none"]
      [] io = "open_fails" ->
            [file |-> f, out |-> <<Msg("Error saving")>>, raised |-> "none"]
      [] io = "write_fails" ->
            [file |-> Garbage, out |-> <<Msg("Error saving")>>, raised |-> "none"]

\* if not description: the description is tested without being stripped
IsBlank_NoStrip(d) == d = <<>>

\* if not description.strip()
IsBlank(d) == strip(d) = <<>>

\* "description": description, not stripped
NewTask_Unstripped(ts, d, t) ==
    << [k |-> "id", v |-> PyInt(Len(ts) + 1)],
       [k |-> "description", v |-> PyStr(d)],
       [k |-> "completed", v |-> PyBool(FALSE)],
       [k |-> "created_at", v |-> PyStr(isoformat(t))] >>

\* "id": len(self.tasks)
NewTask_ZeroBasedId(ts, d, t) ==
    << [k |-> "id", v |-> PyInt(Len(ts))],
       [k |-> "description", v |-> PyStr(strip(d))],
       [k |-> "completed", v |-> PyBool(FALSE)],
       [k |-> "created_at", v |-> PyStr(isoformat(t))] >>

\* the task dict add_task builds
NewTask(ts, d, t) ==
    << [k |-> "id", v |-> PyInt(Len(ts) + 1)],
       [k |-> "description", v |-> PyStr(strip(d))],
       [k |-> "completed", v |-> PyBool(FALSE)],
       [k |-> "created_at", v |-> PyStr(isoformat(t))] >>

\* the scan falls back to the last task instead of None
FindTask_LastOnMiss(ts, task_id) ==
    IF \E i \in 1..Len(ts) : Get(ts[i], "id") = PyInt(task_id)
    THEN CHOOSE i \in 1..Len(ts) :
            /\ Get(ts[i], "id") = PyInt(task_id)
            /\ \A j \in 1..(i - 1) : Get(ts[j], "id") # PyInt(task_id)
    ELSE Len(ts)

\* next((t for t in self.tasks if t["id"] == task_id), None): its position, 0 for None
FindTask(ts, task_id) ==
    IF \E i \in 1..Len(ts) : Get(ts[i], "id") = PyInt(task_id)
    THEN CHOOSE i \in 1..Len(ts) :
            /\ Get(ts[i], "id") = PyInt(task_id)
            /\ \A j \in 1..(i - 1) : Get(ts[j], "id") # PyInt(task_id)
    ELSE 0

\* the completion also stamps created_at
Complete_ResetsCreatedAt(task, t) ==
    SetItem(SetItem(SetItem(task, "completed", PyBool(TRUE)),
                    "completed_at", PyStr(isoformat(t))),
            "created_at", PyStr(isoformat(t)))

\* task["completed"] = True alone
Complete_NoTimestamp(task, t) == SetItem(task, "completed", PyBool(TRUE))

\* task["completed"] = True; task["completed_at"] = datetime.now().isoformat()
Complete(task, t) ==
    SetItem(SetItem(task, "completed", PyBool(TRUE)), "completed_at", PyStr(isoformat(t)))

\* mark_done without its test of task["completed"]
MarkDoneCase_NoCompletedCheck(ts, task_id) ==
    IF ts = <<>> THEN "no tasks"
    ELSE IF FindTask(ts, task_id) = 0 THEN "not found"
    ELSE "mark"

\* the branch mark_done takes
MarkDoneCase(ts, task_id) ==
    IF ts = <<>> THEN "no tasks"
    ELSE IF FindTask(ts, task_id) = 0 THEN "not found"
    ELSE IF Get(ts[FindTask(ts, task_id)], "completed").b THEN "already completed"
    ELSE "mark"

\* the comprehension without its if: every task is returned
SelectSeqBy_IgnoresFlag(ts, flag) == ts

\* [task for task in self.tasks if task["completed"] is flag]
RECURSIVE SelectSeqBy(_, _)
SelectSeqBy(ts, flag) ==
    IF ts = <<>> THEN <<>>
    ELSE IF Get(Head(ts), "completed").b = flag
         THEN <<Head(ts)>> \o SelectSeqBy(Tail(ts), flag)
         ELSE SelectSeqBy(Tail(ts), flag)

\* sum(1 for task in self.tasks): the if is missing, every task counts
completed_count_CountsAll(ts) == Len(ts)

\* sum(1 for task in self.tasks if task["completed"])
RECURSIVE completed_count(_)
completed_count(ts) ==
    IF ts = <<>> THEN 0
    ELSE (IF Get(Head(ts), "completed").b THEN 1 ELSE 0) + completed_count(Tail(ts))

\* the lines list_tasks prints for the tasks: id, status, description
TaskRows(ts) ==
    [i \in 1..Len(ts) |->
        [msg |-> IF Get(ts[i], "completed").b THEN "row done" ELSE "row pending",
         text |-> Get(ts[i], "description").s,
         a |-> Get(ts[i], "id").i,
         b |-> 0]]

----------------------------------------------------------------------------
Init ==
    /\ pc = "start"
    /\ tasks = <<>>
    /\ file \in {Missing, Garbage, Binary}
    /\ now = 0
    /\ last = "none"
    /\ out = <<>>
    /\ ret = <<>>
    /\ raised = "none"
    /\ faults = 0

\* TodoList(filename): a new session on the same backing file
ConstructWith(io) ==
        LET r == load_tasks(file, io) IN
        /\ file.kind = "missing" => io = "ok"
        /\ pc' = After(r.raised)
        /\ tasks' = r.tasks
        /\ out' = r.out
        /\ raised' = r.raised
        /\ faults' = faults + Fault(io)
        /\ last' = "__init__"
        /\ ret' = <<>>
        /\ UNCHANGED <<file, now>>

Construct == \E io \in ReadOutcomes(faults) : ConstructWith(io)

\* add_task that calls save_tasks before it returns on an empty description
add_task_SavesOnReject(d) ==
    /\ pc = "running"
    /\ IF IsBlank(d)
       THEN \E io \in WriteOutcomes(faults) :
                LET r == save_tasks(tasks, file, io)
                IN /\ file' = r.file
                   /\ out' = r.out \o <<Msg("empty description")>>
                   /\ raised' = r.raised
                   /\ faults' = faults + Fault(io)
                   /\ UNCHANGED <<pc, tasks>>
       ELSE /\ Len(tasks) < MaxTasks
            /\ \E io \in WriteOutcomes(faults) :
                LET ts == Append(tasks, NewTask(tasks, d, now))
                    r == save_tasks(ts, file, io)
                IN /\ tasks' = ts
                   /\ file' = r.file
                   /\ out' = r.out \o Unless(r.raised, <<MsgText("Added task", strip(d))>>)
                   /\ raised' = r.raised
                   /\ pc' = After(r.raised)
                   /\ faults' = faults + Fault(io)
    /\ last' = "add_task"
    /\ ret' = <<>>
    /\ UNCHANGED now

add_task(d) ==
    /\ pc = "running"
    /\ IF IsBlank(d)
       THEN /\ out' = <<Msg("empty description")>>
            /\ raised' = "none"
            /\ UNCHANGED <<pc, tasks, file, faults>>
       ELSE /\ Len(tasks) < MaxTasks
            /\ \E io \in WriteOutcomes(faults) :
                LET ts == Append(tasks, NewTask(tasks, d, now))
                    r == save_tasks(ts, file, io)
                IN /\ tasks' = ts
                   /\ file' = r.file
                   /\ out' = r.out \o Unless(r.raised, <<MsgText("Added task", strip(d))>>)
                   /\ raised' = r.raised
                   /\ pc' = After(r.raised)
                   /\ faults' = faults + Fault(io)
    /\ last' = "add_task"
    /\ ret' = <<>>
    /\ UNCHANGED now

list_tasks ==
    /\ pc = "running"
    /\ out' = IF tasks = <<>>
              THEN <<Msg("No tasks found")>>
              ELSE TaskRows(tasks) \o
                   <<MsgProgress(completed_count(tasks), Len(tasks))>>
    /\ last' = "list_tasks"
    /\ ret' = <<>>
    /\ raised' = "none"
    /\ UNCHANGED <<pc, tasks, file, now, faults>>

mark_done(task_id) ==
    /\ pc = "running"
    /\ LET i == FindTask(tasks, task_id)
           c == MarkDoneCase(tasks, task_id)
       IN
       CASE c = "no tasks" ->
                /\ out' = <<Msg("No tasks to mark")>>
                /\ raised' = "none"
                /\ UNCHANGED <<pc, tasks, file, faults>>
         [] c = "not found" ->
                /\ out' = <<MsgId("not found", task_id)>>
                /\ raised' = "none"
                /\ UNCHANGED <<pc, tasks, file, faults>>
         [] c = "already completed" ->
                /\ out' = <<MsgText("already completed", Get(tasks[i], "description").s)>>
                /\ raised' = "none"
                /\ UNCHANGED <<pc, tasks, file, faults>>
         [] c = "mark" ->
                \E io \in WriteOutcomes(faults) :
                    LET ts == [tasks EXCEPT ![i] = Complete(tasks[i], now)]
                        r == save_tasks(ts, file, io)
                    IN /\ tasks' = ts
                       /\ file' = r.file
                       /\ out' = r.out \o
                            Unless(r.raised,
                                <<MsgText("Marked as done", Get(tasks[i], "description").s)>>)
                       /\ raised' = r.raised
                       /\ pc' = After(r.raised)
                       /\ faults' = faults + Fault(io)
    /\ last' = "mark_done"
    /\ ret' = <<>>
    /\ UNCHANGED now

get_pending_tasks ==
    /\ pc = "running"
    /\ ret' = SelectSeqBy(tasks, FALSE)
    /\ last' = "get_pending_tasks"
    /\ out' = <<>>
    /\ raised' = "none"
    /\ UNCHANGED <<pc, tasks, file, now, faults>>

get_completed_tasks ==
    /\ pc = "running"
    /\ ret' = SelectSeqBy(tasks, TRUE)
    /\ last' = "get_completed_tasks"
    /\ out' = <<>>
    /\ raised' = "none"
    /\ UNCHANGED <<pc, tasks, file, now, faults>>

\* a call of the public method save_tasks() on its own
SaveTasks ==
    /\ pc = "running"
    /\ \E io \in WriteOutcomes(faults) :
        LET r == save_tasks(tasks, file, io) IN
        /\ file' = r.file
        /\ out' = r.out
        /\ raised' = r.raised
        /\ pc' = After(r.raised)
        /\ faults' = faults + Fault(io)
    /\ last' = "save_tasks"
    /\ ret' = <<>>
    /\ UNCHANGED <<tasks, now>>

\* the backing file when KeyboardInterrupt cuts save_tasks short: except
\* IOError does not catch it, the with statement closes the file
interrupted_save(ts, f, at) ==
    CASE at = "before open" -> f
      [] at = "in dump" -> Garbage
      [] at = "after dump" -> JsonFile(json_dump(ts))

InterruptPoints == {"before open", "in dump", "after dump"}

\* Ctrl-C: at an input() of the loop, or while add_task or mark_done is in
\* save_tasks.  get_user_choice or the __main__ guard catches the
\* KeyboardInterrupt, "Goodbye" is printed and the program ends.
Interrupt ==
    /\ pc = "running"
    /\ \/ file' = file
       \/ \E d \in Descriptions, at \in InterruptPoints :
            /\ ~IsBlank(d)
            /\ Len(tasks) < MaxTasks
            /\ file' = interrupted_save(Append(tasks, NewTask(tasks, d, now)), file, at)
       \/ \E k \in TaskIds, at \in InterruptPoints :
            /\ MarkDoneCase(tasks, k) = "mark"
            /\ file' = interrupted_save(
                    [tasks EXCEPT ![FindTask(tasks, k)] = Complete(@, now)], file, at)
    /\ pc' = "exited"
    /\ tasks' = <<>>
    /\ out' = <<Msg("Goodbye")>>
    /\ raised' = "none"
    /\ last' = "interrupt"
    /\ ret' = <<>>
    /\ UNCHANGED <<now, faults>>

\* datetime.now() advances between operations
Tick ==
    /\ now < MaxClock
    /\ now' = now + 1
    /\ UNCHANGED <<pc, tasks, file, last, out, ret, raised, faults>>

Next ==
    \/ Construct
    \/ \E d \in Descriptions : add_task(d)
    \/ list_tasks
    \/ \E k \in TaskIds : mark_done(k)
    \/ get_pending_tasks
    \/ get_completed_tasks
    \/ SaveTasks
    \/ Interrupt
    \/ Tick

Spec == Init /\ [][Next]_vars

----------------------------------------------------------------------------
(***************************************************************************)
(* The minimal variant, src/task_manager.py: a module-level list tasks of  *)
(* dicts {"task": ..., "done": ...}, with add_task, list_tasks and         *)
(* mark_done(index).  It has no file, no clock and no store object; the    *)
(* variable tasks is its global list, last and out are as above, and the   *)
(* other variables keep their initial values.                              *)
(***************************************************************************)
MaxItems == 3

TaskTexts == { <<"a">>, <<"b">> }
Indexes == -1..(MaxItems + 1)

\* if index < len(tasks): the lower bound is missing
InRange_NoLowerBound(index, n) == index < n

\* if 0 <= index < len(tasks)
InRange(index, n) == 0 <= index /\ index < n

\* tasks[index]: the position in the list, a negative index counting from the end
Position(index, n) == IF index < 0 THEN n + index + 1 ELSE index + 1

\* {"task": task, "done": False}
Item(task) == << [k |-> "task", v |-> PyStr(task)], [k |-> "done", v |-> PyBool(FALSE)] >>

\* the lines of list_tasks: number from 1, task, status
ItemRows(ts) ==
    [i \in 1..Len(ts) |->
        [msg |-> IF Get(ts[i], "done").b THEN "done" ELSE "not done",
         text |-> Get(ts[i], "task").s,
         a |-> i,
         b |-> 0]]

InitMin ==
    /\ pc = "minimal"
    /\ tasks = <<>>
    /\ file = Missing
    /\ now = 0
    /\ last = "none"
    /\ out = <<>>
    /\ ret = <<>>
    /\ raised = "none"
    /\ faults = 0

tm_add_task(task) ==
    /\ Len(tasks) < MaxItems
    /\ tasks' = Append(tasks, Item(task))
    /\ last' = "add_task"
    /\ out' = <<>>
    /\ UNCHANGED <<pc, file, now, ret, raised, faults>>

tm_list_tasks ==
    /\ out' = ItemRows(tasks)
    /\ last' = "list_tasks"
    /\ UNCHANGED <<pc, tasks, file, now, ret, raised, faults>>

tm_mark_done(index) ==
    /\ IF InRange(index, Len(tasks))
       THEN tasks' = [tasks EXCEPT ![Position(index, Len(tasks))] =
                        SetItem(@, "done", PyBool(TRUE))]
       ELSE tasks' = tasks
    /\ last' = "mark_done"
    /\ out' = <<>>
    /\ UNCHANGED <<pc, file, now, ret, raised, faults>>

NextMin ==
    \/ \E task \in TaskTexts : tm_add_task(task)
    \/ tm_list_tasks
    \/ \E index \in Indexes : tm_mark_done(index)

SpecMin == InitMin /\ [][NextMin]_vars

----------------------------------------------------------------------------
\* What the claims speak of

Completed(task) == Get(task, "completed").b
Carries(ts, k) == \E i \in 1..Len(ts) : Get(ts[i], "id").i = k
PosOf(ts, k) == CHOOSE i \in 1..Len(ts) : Get(ts[i], "id").i = k
PrintedIn(o, m) == \E i \in 1..Len(o) : o[i].msg = m
Printed(m) == PrintedIn(out, m)

\* the last operation changed the tasks and its save succeeded
ChangedAndSaved ==
    /\ last \in {"add_task", "mark_done"}
    /\ Printed("Added task") \/ Printed("Marked as done")
    /\ ~Printed("Error saving")
    /\ raised = "none"

\* the last operation was a save that succeeded
SavedOk == ChangedAndSaved \/ (last = "save_tasks" /\ out = <<>> /\ raised = "none")
AllWhitespace(d) == \A i \in 1..Len(d) : d[i] = " "

\* e is d without its leading and trailing whitespace
IsTrimOf(e, d) ==
    \E i, j \in 1..Len(d) :
        /\ i <= j
        /\ e = SubSeq(d, i, j)
        /\ d[i] # " " /\ d[j] # " "
        /\ \A n \in 1..(i - 1) : d[n] = " "
        /\ \A n \in (j + 1)..Len(d) : d[n] = " "

\* C1: add_task(d) with d non-empty after trimming adds exactly one task, at
\* the end, with completed = false, no completed_at and the trimmed d as its
\* description, and leaves the tasks stored before as they were.
C1_AddAppendsOne ==
    [][\A d \in Descriptions :
        (last' = "add_task" /\ ~AllWhitespace(d) /\ add_task(d)) =>
            /\ Len(tasks') = Len(tasks) + 1
            /\ SubSeq(tasks', 1, Len(tasks)) = tasks
            /\ LET new == tasks'[Len(tasks')] IN
                /\ Get(new, "completed") = PyBool(FALSE)
                /\ ~Has(new, "completed_at")
                /\ Get(new, "description").ty = "str"
                /\ IsTrimOf(Get(new, "description").s, d)]_vars

\* a second task, with inner whitespace kept, was added after a completed first one
C1_Witness ==
    /\ last = "add_task"
    /\ Len(tasks) = 2
    /\ Completed(tasks[1])
    /\ Get(tasks[2], "description").s = <<"a", " ", "b">>
    /\ Printed("Added task")

\* C2: for a stored task with id k not yet completed, mark_done(k) sets
\* completed = true and completed_at; mark_done(k) on the completed task
\* changes nothing in the tasks (completed_at keeps its value) and reports
\* "already completed".
C2_MarkDoneOnceThenNoOp ==
    [][\A k \in TaskIds :
        (last' = "mark_done" /\ Carries(tasks, k) /\ mark_done(k)) =>
            LET i == PosOf(tasks, k) IN
            IF ~Completed(tasks[i])
            THEN /\ Len(tasks') = Len(tasks)
                 /\ Get(tasks'[i], "completed") = PyBool(TRUE)
                 /\ Has(tasks'[i], "completed_at")
                 /\ Get(tasks'[i], "completed_at") = PyStr(isoformat(now))
                 /\ \A j \in 1..Len(tasks) : j # i => tasks'[j] = tasks[j]
            ELSE /\ tasks' = tasks
                 /\ Len(out') = 1
                 /\ out'[1].msg = "already completed"]_vars

\* mark_done was called again, at a later time, on a task already completed
C2_Witness ==
    /\ last = "mark_done"
    /\ Printed("already completed")
    /\ \E i \in 1..Len(tasks) :
        /\ Completed(tasks[i])
        /\ Get(tasks[i], "completed_at") # PyStr(isoformat(now))

\* C3 as claimed: in every store state, the empty store too, mark_done(id)
\* for an id no task carries leaves the tasks unchanged and reports
\* "not found".
C3_Original ==
    [][\A k \in TaskIds :
        (last' = "mark_done" /\ ~Carries(tasks, k) /\ mark_done(k)) =>
            /\ tasks' = tasks
            /\ out' = <<MsgId("not found", k)>>]_vars

\* C3 amended: mark_done(id) for an id no task carries leaves the tasks
\* unchanged; it reports "not found" when the store holds tasks and
\* "No tasks to mark as done!" when the store is empty.
C3_MarkDoneMissingId ==
    [][\A k \in TaskIds :
        (last' = "mark_done" /\ ~Carries(tasks, k) /\ mark_done(k)) =>
            /\ tasks' = tasks
            /\ file' = file
            /\ out' = IF tasks = <<>>
                      THEN <<Msg("No tasks to mark")>>
                      ELSE <<MsgId("not found", k)>>]_vars

\* mark_done was called with an id that none of the stored tasks carries
C3_Witness ==
    /\ last = "mark_done"
    /\ Len(tasks) = 1
    /\ out = <<MsgId("not found", 2)>>

\* C4: add_task with an empty or all-whitespace description leaves the tasks
\* unchanged, reports the validation error and returns without raising.
C4_BlankRejected ==
    [][\A d \in Descriptions :
        (last' = "add_task" /\ AllWhitespace(d) /\ add_task(d)) =>
            /\ tasks' = tasks
            /\ out' = <<Msg("empty description")>>
            /\ raised' = "none"
            /\ pc' = "running"]_vars

\* a blank description was rejected by a store that holds a task
C4_Witness ==
    /\ last = "add_task"
    /\ out = <<Msg("empty description")>>
    /\ Len(tasks) = 1
    /\ raised = "none"

\* C5: after a successful save, a new TodoList on the same backing file (the
\* file system letting it be read) reports no error and holds a task sequence
\* equal to the one saved, in order and in every field, completed_at
\* included; and saving the reloaded sequence again leaves the file content
\* as it was.
C5_RoundTrip ==
    [][/\ (last' = "__init__" /\ pc = "running" /\ SavedOk /\ ConstructWith("ok")) =>
            /\ raised' = "none"
            /\ out' = <<>>
            /\ tasks' = tasks
       /\ (last' = "save_tasks" /\ last = "__init__" /\ file.kind = "json"
                /\ ~Printed("Error loading") /\ ~PrintedIn(out', "Error saving")
                /\ SaveTasks) =>
            file' = file]_vars

\* a store was rebuilt from a file holding a completed and a pending task
C5_Witness ==
    /\ last = "__init__"
    /\ pc = "running"
    /\ Len(tasks) = 2
    /\ Completed(tasks[1]) /\ Has(tasks[1], "completed_at")
    /\ ~Completed(tasks[2]) /\ ~Has(tasks[2], "completed_at")
    /\ file = JsonFile(json_dump(tasks))

\* C6 as claimed: building the store on a file that exists but cannot be
\* parsed or read reports a load error and gives an empty store without
\* raising, so that later operations are possible; on a missing file it
\* gives an empty store.
C6_LoadNeverRaises ==
    last = "__init__" =>
        /\ raised = "none"
        /\ pc = "running"
        /\ file.kind \in {"garbage", "binary"} => (tasks = <<>> /\ Printed("Error loading"))
        /\ file.kind = "missing" => tasks = <<>>

\* C7: when the save inside add_task or mark_done fails, the failure is
\* reported, nothing is raised, the change made in memory is kept, and the
\* operation ends as it does after a successful save (same tasks, same
\* success message, store still running).
C7_SaveFailureKeepsChange ==
    [][/\ \A d \in Descriptions :
            (last' = "add_task" /\ PrintedIn(out', "Error saving") /\ add_task(d)) =>
                /\ raised' = "none"
                /\ pc' = "running"
                /\ tasks' = Append(tasks, NewTask(tasks, d, now))
                /\ out' = <<Msg("Error saving"), MsgText("Added task", strip(d))>>
       /\ \A k \in TaskIds :
            (last' = "mark_done" /\ PrintedIn(out', "Error saving") /\ mark_done(k)) =>
                /\ raised' = "none"
                /\ pc' = "running"
                /\ Carries(tasks, k)
                /\ tasks' = [tasks EXCEPT ![PosOf(tasks, k)] = Complete(@, now)]
                /\ Len(out') = 2 /\ out'[2].msg = "Marked as done"
       /\ (/\ last' \in {"add_task", "mark_done"}
           /\ tasks' # tasks
           /\ \/ \E d \in Descriptions : add_task(d)
              \/ \E k \in TaskIds : mark_done(k)) =>
            (raised' = "none" /\ pc' = "running")]_vars

\* the save of a mark_done failed and the task is completed in memory
C7_Witness ==
    /\ last = "mark_done"
    /\ Printed("Error saving")
    /\ Printed("Marked as done")
    /\ pc = "running"
    /\ \E i \in 1..Len(tasks) : Completed(tasks[i])
    /\ file # JsonFile(json_dump(tasks))

\* C8: right after an add_task or mark_done that changed the tasks and whose
\* save succeeded, the backing file holds exactly the full task sequence in
\* memory, whatever it held before.
C8_FileHoldsFullSequence ==
    ChangedAndSaved =>
        /\ file.kind = "json"
        /\ Len(file.doc) = Len(tasks)
        /\ file = JsonFile(json_dump(tasks))

\* a save succeeded after an earlier I/O failure, with two tasks in the store
C8_Witness ==
    /\ ChangedAndSaved
    /\ Len(tasks) = 2
    /\ faults = 1
    /\ file = JsonFile(json_dump(tasks))

\* C9: in a running store the task at position i has id i: ids are positive,
\* distinct, 1, 2, 3, ... in creation order, also after a reload of a file
\* that an earlier session wrote.
C9_IdsSequential ==
    /\ pc = "running" =>
        \A i \in 1..Len(tasks) : Get(tasks[i], "id") = PyInt(i)
    /\ file.kind = "json" =>
        \A i \in 1..Len(file.doc) : Get(json_load(file.doc)[i], "id") = PyInt(i)

\* a second task was added and got the id 2
C9_Witness ==
    /\ last = "add_task"
    /\ Printed("Added task")
    /\ Len(tasks) = 2
    /\ Get(tasks[2], "id").i = 2

\* C10: every task has completed_at if and only if completed is true.
C10_CompletedAtIffCompleted ==
    \A i \in 1..Len(tasks) : Has(tasks[i], "completed_at") <=> Completed(tasks[i])

\* a task was marked done while another is still pending
C10_Witness ==
    /\ last = "mark_done"
    /\ Printed("Marked as done")
    /\ Len(tasks) = 2
    /\ Completed(tasks[2]) /\ Has(tasks[2], "completed_at")
    /\ ~Completed(tasks[1]) /\ ~Has(tasks[1], "completed_at")

\* r holds exactly the tasks of ts whose completed is flag, in the order of ts
IsFilterOf(r, ts, flag) ==
    LET idx == {i \in 1..Len(ts) : Completed(ts[i]) = flag}
        nth(j) == CHOOSE i \in idx : Cardinality({m \in idx : m <= i}) = j
    IN /\ Len(r) = Cardinality(idx)
       /\ \A j \in 1..Len(r) : r[j] = ts[nth(j)]

Range(r) == {r[j] : j \in 1..Len(r)}

\* C11: get_pending_tasks() returns exactly the tasks with completed = false
\* and get_completed_tasks() exactly those with completed = true, each in
\* store order; the two are disjoint and together they are all the tasks.
C11_PendingCompletedPartition ==
    /\ last = "get_pending_tasks" => IsFilterOf(ret, tasks, FALSE)
    /\ last = "get_completed_tasks" => IsFilterOf(ret, tasks, TRUE)
    /\ pc = "running" =>
        LET P == SelectSeqBy(tasks, FALSE)
            C == SelectSeqBy(tasks, TRUE)
        IN /\ Range(P) \cap Range(C) = {}
           /\ Range(P) \cup Range(C) = Range(tasks)
           /\ Len(P) + Len(C) = Len(tasks)

\* the pending tasks were asked for in a store with a completed first task
\* and a pending second one
C11_Witness ==
    /\ last = "get_pending_tasks"
    /\ Len(tasks) = 2
    /\ Completed(tasks[1]) /\ ~Completed(tasks[2])
    /\ ret = <<tasks[2]>>

\* the tasks a file holds are all still in g, with the id, description and
\* created_at they had
KeepsPersisted(f, g) ==
    f.kind = "json" =>
        /\ g.kind = "json"
        /\ Len(g.doc) >= Len(f.doc)
        /\ \A i \in 1..Len(f.doc) :
            \A key \in {"id", "description", "created_at"} :
                Get(json_load(g.doc)[i], key) = Get(json_load(f.doc)[i], key)

\* C12 as claimed: a keyboard interrupt at any point of the loop ends the
\* program cleanly, and the backing file still holds every task that an
\* earlier successful save had persisted.
C12_InterruptKeepsSavedTasks ==
    [][(last' = "interrupt" /\ Interrupt) =>
        /\ pc' = "exited"
        /\ raised' = "none"
        /\ KeepsPersisted(file, file')]_vars

\* C13: within a run no operation removes or reorders a task, a task's id,
\* description and created_at never change, completed never goes back to
\* false and completed_at never changes once set.
C13_LifecycleMonotonic ==
    [][(tasks' # tasks /\ pc = "running" /\ pc' = "running" /\ last' # "__init__") =>
        /\ Len(tasks') >= Len(tasks)
        /\ \A i \in 1..Len(tasks) :
            /\ \A key \in {"id", "description", "created_at"} :
                Get(tasks'[i], key) = Get(tasks[i], key)
            /\ Completed(tasks[i]) => Completed(tasks'[i])
            /\ Has(tasks[i], "completed_at") =>
                /\ Has(tasks'[i], "completed_at")
                /\ Get(tasks'[i], "completed_at") = Get(tasks[i], "completed_at")]_vars

\* a task completed at an earlier time is as it was after a second task was
\* added and completed later
C13_Witness ==
    /\ last = "mark_done"
    /\ Printed("Marked as done")
    /\ Len(tasks) = 2
    /\ Has(tasks[1], "completed_at") /\ Has(tasks[2], "completed_at")
    /\ Get(tasks[1], "created_at") = PyStr(isoformat(0))
    /\ Get(tasks[1], "completed_at") = PyStr(isoformat(0))
    /\ Get(tasks[2], "completed_at") = PyStr(isoformat(1))

\* C14: list_tasks on a store with tasks prints one line per task and then
\* the progress c/t, t the number of tasks and c the number of completed
\* ones; on the empty store it reports that there are no tasks; it changes
\* neither the tasks nor the backing file.
C14_ListReportsProgress ==
    [][(last' = "list_tasks" /\ list_tasks) =>
        /\ tasks' = tasks
        /\ file' = file
        /\ raised' = "none"
        /\ IF tasks = <<>>
           THEN out' = <<Msg("No tasks found")>>
           ELSE /\ Len(out') = Len(tasks) + 1
                /\ out'[Len(out')] =
                    MsgProgress(Cardinality({i \in 1..Len(tasks) : Completed(tasks[i])}),
                                Len(tasks))]_vars

\* one task was added, marked done and listed: id 1, completed, progress 1/1
C14_Witness ==
    /\ last = "list_tasks"
    /\ Len(tasks) = 1
    /\ Get(tasks[1], "id").i = 1
    /\ Completed(tasks[1]) /\ Has(tasks[1], "completed_at")
    /\ Len(out) = 2
    /\ out[2] = MsgProgress(1, 1)

\* C15: the backing file is written only where an add_task or mark_done
\* that changed the tasks saves them (save_tasks itself, also when Ctrl-C
\* cuts it short): building the store, a rejected add_task, mark_done on a
\* missing id or a completed task, list_tasks, get_pending_tasks and
\* get_completed_tasks leave the file content as it is.
C15_FileWrittenOnlyOnChange ==
    [][file' # file =>
        /\ last' \notin {"__init__", "list_tasks", "get_pending_tasks",
                         "get_completed_tasks"}
        /\ last' \in {"add_task", "mark_done"} => tasks' # tasks
        /\ last' \in {"add_task", "mark_done", "save_tasks", "interrupt"}]_vars

\* an add_task was rejected and left an unparsable file as it was
C15_Witness ==
    /\ last = "add_task"
    /\ out = <<Msg("empty description")>>
    /\ file = Garbage
    /\ tasks = <<>>

Done(item) == Get(item, "done").b

\* C16: in the minimal variant mark_done(index) sets done on exactly the
\* task at 0-based position index when 0 <= index < len(tasks) and changes
\* nothing for any other index; it is idempotent and keeps the number and
\* order of the tasks; add_task appends a task with done = False; no
\* operation resets done to False.
C16_MinimalMarkDone ==
    [][/\ \A index \in Indexes :
            (last' = "mark_done" /\ tm_mark_done(index)) =>
                /\ Len(tasks') = Len(tasks)
                /\ IF 0 <= index /\ index < Len(tasks)
                   THEN /\ Done(tasks'[index + 1])
                        /\ Get(tasks'[index + 1], "task") = Get(tasks[index + 1], "task")
                        /\ \A i \in 1..Len(tasks) : i # index + 1 => tasks'[i] = tasks[i]
                        /\ Done(tasks[index + 1]) => tasks' = tasks
                   ELSE tasks' = tasks
       /\ \A task \in TaskTexts :
            (last' = "add_task" /\ tm_add_task(task)) =>
                /\ Len(tasks') = Len(tasks) + 1
                /\ SubSeq(tasks', 1, Len(tasks)) = tasks
                /\ ~Done(tasks'[Len(tasks')])
                /\ Get(tasks'[Len(tasks')], "task") = PyStr(task)
       /\ \A i \in 1..Len(tasks) :
            Done(tasks[i]) => (i <= Len(tasks') /\ Done(tasks'[i]))]_vars

\* of three tasks the one at index 1 was marked done and the others not
C16_Witness ==
    /\ pc = "minimal"
    /\ last = "mark_done"
    /\ Len(tasks) = 3
    /\ ~Done(tasks[1]) /\ Done(tasks[2]) /\ ~Done(tasks[3])

====
